---- MODULE Spec2Model ----
(***************************************************************************)
(* State-machine model of src/app.py: the job dispatcher (download), the   *)
(* background worker (process_job), the job store (write_meta / read_meta) *)
(* and the read-only routes (share, dl_job, serve_file).                   *)
(*                                                                         *)
(* A Python dict is a TLA+ record whose DOMAIN is the dict's key set, so   *)
(* "key absent" is "key \notin DOMAIN".  dict.update(d) is d @@ meta.      *)
(* A string that the code builds or inspects (title, file name, URL) is a  *)
(* sequence of tokens; an extension such as ".mp3" is one token.           *)
(***************************************************************************)
EXTENDS Integers, Sequences, FiniteSets, TLC

\* ---------------------------------------------------------------- bounds
\* Size of the job-id space (uuid4().hex[:12] draws from 2^48 ids).
NumIds == 2
\* Number of accepted submissions (POST /download with a url) in one run.
MaxJobs == 1
\* time.time() ranges over 0..MaxTime.
MaxTime == 1
\* st_size of a file the extraction engine leaves ranges over 0..MaxSize.
MaxSize == 1
\* Number of files one extraction leaves in the job directory.
MaxFiles == 2
\* st_size of meta.json when process_job lists the job directory.
MetaSize == 1

Jobs == 1..NumIds
Formats == {"mp3", "mp4"}

\* ------------------------------------------------------- optional values
None == [none |-> TRUE]
Some(v) == [none |-> FALSE, v |-> v]

\* ------------------------------------------------------------- strings
AlnumChars == {"a", "e", "m", "t", "q", "r"}
PunctChars == {" ", ".", "-", "_", "(", ")", "[", "]", "{", "}"}

\* str.strip(): drop leading and trailing whitespace.
RECURSIVE LStrip(_)
LStrip(s) == IF s # <<>> /\ Head(s) = " " THEN LStrip(Tail(s)) ELSE s

RECURSIVE RStripWs(_)
RStripWs(s) ==
    IF s # <<>> /\ s[Len(s)] = " " THEN RStripWs(SubSeq(s, 1, Len(s) - 1)) ELSE s

Strip(s) == RStripWs(LStrip(s))

IsSafeChar(c) == c \in AlnumChars \/ c \in PunctChars

\* safe_filename(name): keep alphanumerics and " .-_()[]{}", then strip.
safe_filename(name) == Strip(SelectSeq(name, IsSafeChar))

\* str.rstrip("/")
RECURSIVE RStripSlash(_)
RStripSlash(s) ==
    IF s # <<>> /\ s[Len(s)] = "/" THEN RStripSlash(SubSeq(s, 1, Len(s) - 1)) ELSE s

\* PUBLIC_HOST as configured through the environment, with a trailing slash.
PUBLIC_HOST == <<"http://host:5000", "/">>

external_url(path) == RStripSlash(PUBLIC_HOST) \o path

\* ---------------------------------------------------------- file names
ExtTokens == {".mp3", ".m4a", ".mp4", ".webm", ".mkv", ".opus", ".jpg", ".json", ".png",
              ".MP3"}

\* pathlib: Path.suffix is the last extension, "" for a name that is only ".ext".
Suffix(name) ==
    IF Len(name) > 1 /\ name[Len(name)] \in ExtTokens THEN name[Len(name)] ELSE ""

\* pathlib: Path.stem.
Stem(name) == IF Suffix(name) # "" THEN SubSeq(name, 1, Len(name) - 1) ELSE name

\* str.lower() on an extension.
Lower(ext) == IF ext = ".MP3" THEN ".mp3" ELSE ext

MetaName == <<"m", "e", "t", "a", ".json">>
QrName == <<"q", "r", ".png">>

\* The extension priority list of process_job.
PriorityExts == <<".mp3", ".m4a", ".mp4", ".webm", ".mkv", ".opus">>

IdTok(j) == ToString(j)

\* ------------------------------------------------- external collaborators
\* Files the extraction engine can leave in a job directory (outtmpl
\* "%(title).200s.%(ext)s" plus the thumbnail).  st_size is read only by the
\* size fallback, which runs when no file has a priority extension, so a
\* priority-extension file carries one size.
ProducedExts == {".mp3", ".mp4", ".jpg"}

IsPriorityExt(e) == \E i \in 1..Len(PriorityExts) : PriorityExts[i] = e

ProducedFiles ==
    {[name |-> <<"a", e>>, size |-> s] :
        e \in ProducedExts, s \in 0..MaxSize} \
    {f \in [name : {<<"a", e>> : e \in ProducedExts}, size : 0..MaxSize] :
        IsPriorityExt(Suffix(f.name)) /\ f.size # MaxSize}

ExtractOutputs ==
    {S \in SUBSET ProducedFiles :
        /\ Cardinality(S) <= MaxFiles
        /\ \A f, g \in S : f.name = g.name => f = g}

\* Title the extraction engine resolves: a space, a letter and a character
\* safe_filename removes.
Title1 == <<" ", "a", "/">>

\* extract_info(url, download=True) returns None or an info dict.
InfoChoices ==
    {None, Some([title |-> None, entries |-> FALSE])}
        \cup {Some([title |-> Some(Title1), entries |-> e]) : e \in BOOLEAN}

\* str(e) of the exception the extraction engine raises.
ExtractErrors == {"ERROR: unable to download"}

\* ------------------------------------------------------------------ state
VARIABLES
    pc,         \* pc[j]: position of job j's dispatcher request / worker thread
    wr,         \* wr[j]: stage of the write_meta call in progress for job j
    meta,       \* meta[j]: the dict handed to write_meta (download's literal, then process_job's meta)
    loc,        \* loc[j]: process_job's locals info, media_file, title, final_filename
    disk,       \* disk[j]: downloads/<j>/meta.json as a reader finds it
    dir,        \* dir[j]: the other files of downloads/<j>
    writes,     \* writes[j]: the documents write_meta was called with, in order
    now,        \* int(time.time())
    ydl,        \* YoutubeDL is not None
    qrlib,      \* qrcode is not None
    hist,       \* hist[j]: how the external calls of job j's worker ended
    resp        \* the HTTP response produced by the last step

vars == <<pc, wr, meta, loc, disk, dir, writes, now, ydl, qrlib, hist, resp>>

NoResp == [op |-> "none"]
NoMeta == [status |-> "unset"]
NoParams == [url |-> "", format |-> ""]
NoLoc == [params |-> NoParams, info |-> None, media_file |-> <<>>, title |-> None,
          final_filename |-> <<>>]
\* extract: "not_run", "raised" or "returned", with the names it produced;
\* primary: the file selected at lines 243-252; adapter, qr: how
\* subprocess.run and the QR block ended.
NoHist == [threads |-> 0, extract |-> "not_run", produced |-> {},
           primary |-> <<>>, adapter |-> "not_run", qr |-> "not_run"]

Absent == [st |-> "absent"]
\* After open(..., "w") and before close: empty, or a proper prefix of the
\* document json.dump is writing.
Torn == [st |-> "torn"]
Full(doc) == [st |-> "full", doc |-> doc]

Init ==
    /\ pc = [j \in Jobs |-> "free"]
    /\ wr = [j \in Jobs |-> "none"]
    /\ meta = [j \in Jobs |-> NoMeta]
    /\ loc = [j \in Jobs |-> NoLoc]
    /\ disk = [j \in Jobs |-> Absent]
    /\ dir = [j \in Jobs |-> {}]
    /\ writes = [j \in Jobs |-> <<>>]
    /\ now = 0
    /\ ydl \in BOOLEAN
    /\ qrlib \in BOOLEAN
    /\ hist = [j \in Jobs |-> NoHist]
    /\ resp = NoResp

\* --------------------------------------------------------------- job store
\* read_meta(job_dir): json.load of meta.json; any exception (no file, an
\* empty or truncated document) gives None.
read_meta(j) == IF disk[j].st = "full" THEN Some(disk[j].doc) ELSE None

\* The program points that are a write_meta call.
WritePcs == {"L132", "L205", "L212", "L218", "L238", "L299", "L304"}

\* Where control goes when the write_meta call at p returns.
AfterWrite(p) ==
    CASE p = "L132" -> "L134"
      [] p = "L205" -> "L211"
      [] p = "L212" -> "L214"
      [] p = "L299" -> "exit"
      [] OTHER -> "exit"

\* Thread-local state dropped when the worker thread ends.
Ended(p) == p \in {"exit", "crashed", "failed"}

\* Mutant of OnError: the handler puts the failed job back in the queue.
OnError_Requeue(m, msg) == [status |-> "queued", error |-> msg] @@ m

\* Mutant of OnError: the handler writes a fresh record instead of updating.
OnError_FreshRecord(m, msg) ==
    [job_id |-> m.job_id, status |-> "error", error |-> msg]

\* The except handler of process_job (lines 301-303).
OnError(m, msg) == [status |-> "error", error |-> msg] @@ m

\* write_meta: open(..., "w") truncates meta.json.
WriteOpen(j) ==
    /\ pc[j] \in WritePcs /\ wr[j] = "none"
    /\ wr' = [wr EXCEPT ![j] = "opened"]
    /\ disk' = [disk EXCEPT ![j] = Torn]
    /\ writes' = [writes EXCEPT ![j] = Append(@, meta[j])]
    /\ resp' = NoResp
    /\ UNCHANGED <<pc, meta, loc, dir, now, ydl, qrlib, hist>>

\* Mutant of WriteClose: the path of meta.json leaves the job id out.
WriteClose_SharedPath(j) ==
    /\ pc[j] \in WritePcs /\ wr[j] = "opened"
    /\ wr' = [wr EXCEPT ![j] = "none"]
    /\ disk' = [disk EXCEPT ![1] = Full(meta[j])]
    /\ pc' = [pc EXCEPT ![j] = AfterWrite(@)]
    /\ meta' = [meta EXCEPT ![j] = IF Ended(AfterWrite(pc[j])) THEN NoMeta ELSE @]
    /\ loc' = [loc EXCEPT ![j] = IF Ended(AfterWrite(pc[j])) THEN NoLoc ELSE @]
    /\ resp' = NoResp
    /\ UNCHANGED <<dir, writes, now, ydl, qrlib, hist>>

\* write_meta: json.dump has written the document and the file is closed.
WriteClose(j) ==
    /\ pc[j] \in WritePcs /\ wr[j] = "opened"
    /\ wr' = [wr EXCEPT ![j] = "none"]
    /\ disk' = [disk EXCEPT ![j] = Full(meta[j])]
    /\ pc' = [pc EXCEPT ![j] = AfterWrite(@)]
    /\ meta' = [meta EXCEPT ![j] = IF Ended(AfterWrite(pc[j])) THEN NoMeta ELSE @]
    /\ loc' = [loc EXCEPT ![j] = IF Ended(AfterWrite(pc[j])) THEN NoLoc ELSE @]
    /\ resp' = NoResp
    /\ UNCHANGED <<dir, writes, now, ydl, qrlib, hist>>

\* write_meta raises OSError after the truncation (disk full, I/O error).
\* At line 299 the except of line 301 catches it; at line 132 the request
\* fails with 500; anywhere else the worker thread dies.
WriteFail(j) ==
    /\ pc[j] \in WritePcs /\ wr[j] = "opened"
    /\ wr' = [wr EXCEPT ![j] = "none"]
    /\ IF pc[j] = "L299"
       THEN /\ pc' = [pc EXCEPT ![j] = "L304"]
            /\ meta' = [meta EXCEPT ![j] = OnError(@, "OSError")]
            /\ loc' = loc
            /\ resp' = NoResp
       ELSE /\ pc' = [pc EXCEPT ![j] = IF @ = "L132" THEN "failed" ELSE "crashed"]
            /\ meta' = [meta EXCEPT ![j] = NoMeta]
            /\ loc' = [loc EXCEPT ![j] = NoLoc]
            /\ resp' = IF pc[j] = "L132"
                       THEN [op |-> "download", code |-> 500]
                       ELSE NoResp
    /\ UNCHANGED <<disk, dir, writes, now, ydl, qrlib, hist>>

\* -------------------------------------------------------------- dispatcher
\* Mutant of download: the new id is not fresh.
download_Collides(j, fmt) ==
    /\ pc' = [pc EXCEPT ![j] = "L132"]
    /\ meta' = [meta EXCEPT ![j] =
                  [job_id |-> j, status |-> "queued",
                   params |-> [url |-> "u", format |-> fmt],
                   created_at |-> now]]
    /\ resp' = NoResp
    /\ UNCHANGED <<wr, loc, disk, dir, writes, now, ydl, qrlib, hist>>

\* POST /download with a url: lines 116-132 up to the write_meta call.
download(j, fmt) ==
    /\ pc[j] = "free"
    /\ pc' = [pc EXCEPT ![j] = "L132"]
    /\ meta' = [meta EXCEPT ![j] =
                  [job_id |-> j, status |-> "queued",
                   params |-> [url |-> "u", format |-> fmt],
                   created_at |-> now]]
    /\ resp' = NoResp
    /\ UNCHANGED <<wr, loc, disk, dir, writes, now, ydl, qrlib, hist>>

\* Mutant of download_no_url: the url test comes after the record is written.
download_no_url_WritesFirst ==
    /\ \E j \in Jobs :
          /\ pc[j] = "free"
          /\ disk' = [disk EXCEPT ![j] =
                        Full([job_id |-> j, status |-> "queued",
                              params |-> [url |-> "", format |-> "mp3"],
                              created_at |-> now])]
    /\ resp' = [op |-> "download", code |-> 400]
    /\ UNCHANGED <<pc, wr, meta, loc, dir, writes, now, ydl, qrlib, hist>>

\* POST /download without a url: lines 126-127.
download_no_url ==
    /\ resp' = [op |-> "download", code |-> 400]
    /\ UNCHANGED <<pc, wr, meta, loc, disk, dir, writes, now, ydl, qrlib, hist>>

\* Lines 134-137: start the worker thread and answer with the job id.
start_thread(j) ==
    /\ pc[j] = "L134"
    /\ pc' = [pc EXCEPT ![j] = "L203"]
    /\ meta' = [meta EXCEPT ![j] = NoMeta]
    /\ loc' = [loc EXCEPT ![j] = [NoLoc EXCEPT !.params = meta[j].params]]
    /\ hist' = [hist EXCEPT ![j].threads = @ + 1]
    /\ resp' = [op |-> "download", code |-> 200, job_id |-> j]
    /\ UNCHANGED <<wr, disk, dir, writes, now, ydl, qrlib>>

\* ------------------------------------------------------------------ worker
\* process_job lines 202-204: the worker's own first record.
begin(j) ==
    /\ pc[j] = "L203"
    /\ pc' = [pc EXCEPT ![j] = "L205"]
    /\ meta' = [meta EXCEPT ![j] =
                  [job_id |-> j, status |-> "queued", created_at |-> now,
                   params |-> loc[j].params]]
    /\ resp' = NoResp
    /\ UNCHANGED <<wr, loc, disk, dir, writes, now, ydl, qrlib, hist>>

\* Lines 207-211.
processing(j) ==
    /\ pc[j] = "L211"
    /\ pc' = [pc EXCEPT ![j] = "L212"]
    /\ meta' = [meta EXCEPT ![j] = [status |-> "processing", started_at |-> now] @@ @]
    /\ resp' = NoResp
    /\ UNCHANGED <<wr, loc, disk, dir, writes, now, ydl, qrlib, hist>>

\* Lines 214-217: the extraction engine was not importable.
no_ydl(j) ==
    /\ pc[j] = "L214" /\ ~ydl
    /\ pc' = [pc EXCEPT ![j] = "L218"]
    /\ meta' = [meta EXCEPT ![j] = OnError(@, "yt-dlp not available")]
    /\ resp' = NoResp
    /\ UNCHANGED <<wr, loc, disk, dir, writes, now, ydl, qrlib, hist>>

Names(files) == {f.name : f \in files}

\* Lines 232-237: extract_info raises; what it had downloaded stays.
extract_raise(j, files, msg) ==
    /\ pc[j] = "L214" /\ ydl
    /\ pc' = [pc EXCEPT ![j] = "L238"]
    /\ dir' = [dir EXCEPT ![j] = files]
    /\ meta' = [meta EXCEPT ![j] = OnError(@, msg)]
    /\ hist' = [hist EXCEPT ![j].extract = "raised", ![j].produced = Names(files)]
    /\ resp' = NoResp
    /\ UNCHANGED <<wr, loc, disk, writes, now, ydl, qrlib>>

\* Lines 232-234: extract_info returns.
extract_ok(j, files, info) ==
    /\ pc[j] = "L214" /\ ydl
    /\ pc' = [pc EXCEPT ![j] = "L242"]
    /\ dir' = [dir EXCEPT ![j] = files]
    /\ loc' = [loc EXCEPT ![j].info = info]
    /\ hist' = [hist EXCEPT ![j].extract = "returned", ![j].produced = Names(files)]
    /\ resp' = NoResp
    /\ UNCHANGED <<wr, meta, disk, writes, now, ydl, qrlib>>

\* job_dir.glob("*"): every entry of the job directory, meta.json included.
Listing(j) ==
    dir[j] \cup (IF disk[j].st = "absent" THEN {}
                 ELSE {[name |-> MetaName, size |-> MetaSize]})

\* Lines 244-250: the files carrying the first priority extension that any
\* file carries (glob order decides among them).
RECURSIVE PriorityPick(_, _)
PriorityPick(files, i) ==
    IF i > Len(PriorityExts) THEN {}
    ELSE LET m == {f \in files : Lower(Suffix(f.name)) = PriorityExts[i]}
         IN IF m # {} THEN m ELSE PriorityPick(files, i + 1)

\* Line 252: max(files, key=st_size); list order decides among equals.
Largest(files) == {f \in files : \A g \in files : g.size <= f.size}

\* Lines 243-252: the files media_file can be.
MediaCandidates(files) ==
    IF PriorityPick(files, 1) # {} THEN PriorityPick(files, 1) ELSE Largest(files)

\* Line 257.
TitleOf(info, media) == IF info.none THEN Some(Stem(media)) ELSE info.v.title

\* Lines 242-258: select the primary file, the title and the default name.
select(j) ==
    /\ pc[j] = "L242"
    /\ LET cands == MediaCandidates(Listing(j))
       IN IF cands = {}
          THEN /\ pc' = [pc EXCEPT ![j] = "L304"]
               /\ meta' = [meta EXCEPT ![j] =
                             OnError(@, "No media file found after yt-dlp")]
               /\ UNCHANGED <<loc, hist>>
          ELSE /\ \E f \in cands :
                    /\ loc' = [loc EXCEPT ![j].media_file = f.name,
                                          ![j].title = TitleOf(loc[j].info, f.name),
                                          ![j].final_filename = f.name]
                    /\ hist' = [hist EXCEPT ![j].primary = f.name]
               /\ pc' = [pc EXCEPT ![j] = "L260"]
               /\ meta' = meta
    /\ resp' = NoResp
    /\ UNCHANGED <<wr, disk, dir, writes, now, ydl, qrlib>>

TargetExt(fmt) == IF fmt = "mp3" THEN ".mp3" ELSE ".mp4"

\* Lines 260 and 267: whether the transcoding adapter is invoked.
NeedsTranscode(fmt, media) ==
    \/ fmt = "mp3" /\ Lower(Suffix(media)) # ".mp3"
    \/ fmt = "mp4" /\ Lower(Suffix(media)) # ".mp4"

\* Lines 261 and 268.
OutFile(title, fmt) == safe_filename(title) \o <<TargetExt(fmt)>>

\* How subprocess.run(ffmpeg_cmd, check=False) can end.
AdapterOutcomes == {"ok", "exit_fail", "exit_fail_output", "not_launched"}

\* Mutant of FinalName: the out_file.exists() test is left out.
FinalName_NoExistsCheck(files, out, media) == out

\* Lines 265-266 and 272-273.
FinalName(files, out, media) == IF out \in Names(files) THEN out ELSE media

\* Lines 260-273: the conditional transcode.
transcode(j) ==
    /\ pc[j] = "L260"
    /\ LET fmt == loc[j].params.format
           media == loc[j].media_file
       IN IF ~NeedsTranscode(fmt, media)
          THEN /\ pc' = [pc EXCEPT ![j] = "L275"]
               /\ UNCHANGED <<meta, loc, dir, hist>>
          ELSE IF loc[j].title.none
          THEN \* safe_filename(None) raises TypeError
               /\ pc' = [pc EXCEPT ![j] = "L304"]
               /\ meta' = [meta EXCEPT ![j] =
                             OnError(@, "'NoneType' object is not iterable")]
               /\ UNCHANGED <<loc, dir, hist>>
          ELSE \E o \in AdapterOutcomes :
                  LET out == OutFile(loc[j].title.v, fmt)
                      made == IF o \in {"ok", "exit_fail_output"}
                              THEN {f \in dir[j] : f.name # out}
                                       \cup {[name |-> out, size |-> 1]}
                              ELSE dir[j]
                  IN IF o = "not_launched"
                     THEN \* subprocess.run raises FileNotFoundError
                          /\ pc' = [pc EXCEPT ![j] = "L304"]
                          /\ meta' = [meta EXCEPT ![j] =
                                        OnError(@, "No such file or directory: 'ffmpeg'")]
                          /\ hist' = [hist EXCEPT ![j].adapter = o]
                          /\ UNCHANGED <<loc, dir>>
                     ELSE /\ pc' = [pc EXCEPT ![j] = "L275"]
                          /\ meta' = meta
                          /\ dir' = [dir EXCEPT ![j] = made]
                          /\ hist' = [hist EXCEPT ![j].adapter = o]
                          /\ loc' = [loc EXCEPT
                                       ![j].final_filename = FinalName(made, out, media)]
    /\ resp' = NoResp
    /\ UNCHANGED <<wr, disk, writes, now, ydl, qrlib>>

\* How lines 279-287 can end: qrcode missing, the image saved, or an
\* exception before or after img.save created qr.png.
QrOutcomes == {"saved", "raised", "raised_output"}

\* Mutant of DoneFields: the stable link is left out of the done record.
DoneFields_NoDlUrl(j, info, title, final, qr_exists) ==
    [status |-> "done",
     finished_at |-> now,
     title |-> title,
     filename |-> final,
     is_playlist |-> IF info.none THEN FALSE ELSE info.v.entries,
     download_url |-> external_url(<<"/file/", IdTok(j), "/">> \o final),
     qr_url |-> None]

\* Lines 289-298: the record of a finished job.
DoneFields(j, info, title, final, qr_exists) ==
    [status |-> "done",
     finished_at |-> now,
     title |-> title,
     filename |-> final,
     is_playlist |-> IF info.none THEN FALSE ELSE info.v.entries,
     download_url |-> external_url(<<"/file/", IdTok(j), "/">> \o final),
     dl_url |-> external_url(<<"/dl/", IdTok(j)>>),
     qr_url |-> IF qr_exists
                THEN Some(external_url(<<"/file/", IdTok(j), "/">> \o QrName))
                ELSE None]

\* Lines 275-298: publish the URLs, try the QR image, merge the done fields.
publish(j) ==
    /\ pc[j] = "L275"
    /\ \E o \in (IF qrlib THEN QrOutcomes ELSE {"no_qrcode"}) :
          LET files == IF o \in {"saved", "raised_output"}
                       THEN {f \in dir[j] : f.name # QrName}
                                \cup {[name |-> QrName, size |-> 1]}
                       ELSE dir[j]
          IN /\ dir' = [dir EXCEPT ![j] = files]
             /\ hist' = [hist EXCEPT ![j].qr = o]
             /\ meta' = [meta EXCEPT ![j] =
                           DoneFields(j, loc[j].info, loc[j].title,
                                      loc[j].final_filename,
                                      QrName \in Names(files)) @@ @]
    /\ pc' = [pc EXCEPT ![j] = "L299"]
    /\ resp' = NoResp
    /\ UNCHANGED <<wr, loc, disk, writes, now, ydl, qrlib>>

\* time.time() advances.
Tick ==
    /\ now < MaxTime
    /\ now' = now + 1
    /\ resp' = NoResp
    /\ UNCHANGED <<pc, wr, meta, loc, disk, dir, writes, ydl, qrlib, hist>>

\* ------------------------------------------------------- read-only routes
\* What share answers (lines 141-157).
ShareResponse(j) ==
    LET m == read_meta(j)
    IN IF m.none
       THEN [op |-> "share", job_id |-> j, code |-> 404]
       ELSE IF m.v.status = "done"
       THEN [op |-> "share", job_id |-> j, code |-> 200, status |-> m.v.status,
             filename |-> m.v.filename, title |-> m.v.title,
             download_url |-> m.v.download_url, dl_url |-> m.v.dl_url,
             qr_url |-> m.v.qr_url]
       ELSE IF m.v.status = "error"
       THEN [op |-> "share", job_id |-> j, code |-> 500, status |-> "error",
             error |-> m.v.error]
       ELSE [op |-> "share", job_id |-> j, code |-> 200, status |-> m.v.status]

\* What serve_file answers (lines 170-198): the file if it exists.
ServeResponse(op, j, name) ==
    IF name \in Names(Listing(j))
    THEN [op |-> op, job_id |-> j, code |-> 200, file |-> name]
    ELSE [op |-> op, job_id |-> j, code |-> 404]

\* What dl_job answers (lines 161-166).
DlResponse(j) ==
    LET m == read_meta(j)
    IN IF m.none \/ m.v.status # "done"
       THEN [op |-> "dl", job_id |-> j, code |-> 404]
       ELSE ServeResponse("dl", j, m.v.filename)

\* File names a client asks serve_file for.
RequestNames == {MetaName, QrName, <<"a", ".mp3">>}

\* GET /share/<job_id>
share(j) ==
    /\ resp' = ShareResponse(j)
    /\ UNCHANGED <<pc, wr, meta, loc, disk, dir, writes, now, ydl, qrlib, hist>>

\* Mutant of dl_job: a served download is counted in the job's record.
dl_job_CountsDownloads(j) ==
    /\ resp' = DlResponse(j)
    /\ disk' = IF resp'.code = 200
               THEN [disk EXCEPT ![j] = Full([downloads |-> 1] @@ read_meta(j).v)]
               ELSE disk
    /\ UNCHANGED <<pc, wr, meta, loc, dir, writes, now, ydl, qrlib, hist>>

\* GET /dl/<job_id>
dl_job(j) ==
    /\ resp' = DlResponse(j)
    /\ UNCHANGED <<pc, wr, meta, loc, disk, dir, writes, now, ydl, qrlib, hist>>

\* GET /file/<job_id>/<filename>
serve_file(j, name) ==
    /\ resp' = ServeResponse("file", j, name)
    /\ UNCHANGED <<pc, wr, meta, loc, disk, dir, writes, now, ydl, qrlib, hist>>

\* ---------------------------------------------------------- specification
\* The number of submit requests with a url received so far.
Accepted == Cardinality({k \in Jobs : pc[k] # "free"})

Next ==
    \/ \E j \in Jobs, fmt \in Formats : Accepted < MaxJobs /\ download(j, fmt)
    \/ download_no_url
    \/ \E j \in Jobs : start_thread(j)
    \/ \E j \in Jobs : WriteOpen(j)
    \/ \E j \in Jobs : WriteClose(j)
    \/ \E j \in Jobs : WriteFail(j)
    \/ \E j \in Jobs : begin(j)
    \/ \E j \in Jobs : processing(j)
    \/ \E j \in Jobs : no_ydl(j)
    \/ \E j \in Jobs, files \in ExtractOutputs, msg \in ExtractErrors :
          extract_raise(j, files, msg)
    \/ \E j \in Jobs, files \in ExtractOutputs, info \in InfoChoices :
          extract_ok(j, files, info)
    \/ \E j \in Jobs : select(j)
    \/ \E j \in Jobs : transcode(j)
    \/ \E j \in Jobs : publish(j)
    \/ Tick
    \/ \E j \in Jobs : share(j)
    \/ \E j \in Jobs : dl_job(j)
    \/ \E j \in Jobs, name \in RequestNames : serve_file(j, name)

Spec == Init /\ [][Next]_vars

\* Two submissions in flight at once. The extraction engine's answers are
\* narrowed to one video with a title and at most one produced file, and
\* the read-only routes are left to Spec.
PairOutputs == {fs \in ExtractOutputs : Names(fs) \subseteq {<<"a", ".mp4">>}}

PairInfos == {i \in InfoChoices : ~i.none /\ ~i.v.title.none /\ ~i.v.entries}

NextPair ==
    \/ \E j \in Jobs, fmt \in Formats : Accepted < MaxJobs + 1 /\ download(j, fmt)
    \/ \E j \in Jobs : start_thread(j)
    \/ \E j \in Jobs : WriteOpen(j)
    \/ \E j \in Jobs : WriteClose(j)
    \/ \E j \in Jobs : WriteFail(j)
    \/ \E j \in Jobs : begin(j)
    \/ \E j \in Jobs : processing(j)
    \/ \E j \in Jobs : no_ydl(j)
    \/ \E j \in Jobs, files \in PairOutputs, msg \in ExtractErrors :
          extract_raise(j, files, msg)
    \/ \E j \in Jobs, files \in PairOutputs, info \in PairInfos :
          extract_ok(j, files, info)
    \/ \E j \in Jobs : select(j)
    \/ \E j \in Jobs : transcode(j)
    \/ \E j \in Jobs : publish(j)
    \/ Tick

SpecPair == Init /\ [][NextPair]_vars

\* ------------------------------------------------------------ properties
\* The submit request for j has returned a job id (line 137).
Submitted(j) == pc[j] \notin {"free", "L132", "L134", "failed"}

\* The documents write_meta was called with for job j.
Docs(j) == {writes[j][i] : i \in DOMAIN writes[j]}

StatusRank(st) ==
    CASE st = "queued" -> 0
      [] st = "processing" -> 1
      [] OTHER -> 2

SuccessFields ==
    {"title", "filename", "is_playlist", "download_url", "dl_url", "qr_url",
     "finished_at"}

\* The status of job j's persisted record, "none" when no record can be read.
RecordStatus(j) == IF read_meta(j).none THEN "none" ELSE read_meta(j).v.status

\* C1: the statuses of the records written for a job, in write order, never
\* step back along queued -> processing -> (done | error): nothing after a
\* done or error record is queued or processing, nothing after a processing
\* record is queued.
C1_StatusMonotonic ==
    \A j \in Jobs : \A i, k \in DOMAIN writes[j] :
        i < k => StatusRank(writes[j][i].status) <= StatusRank(writes[j][k].status)

\* C1 witness: a job wrote queued (dispatcher), queued, processing and then
\* a terminal record.
C1_Witness ==
    \E j \in Jobs :
        /\ Len(writes[j]) >= 4
        /\ writes[j][1].status = "queued"
        /\ writes[j][3].status = "processing"
        /\ writes[j][4].status \in {"done", "error"}
        /\ disk[j] = Full(writes[j][4])

\* C2 (as claimed): while a write_meta call replaces an existing record, a
\* read_meta of the same job returns a complete document that was written,
\* never nothing.
C2_AtomicReplace ==
    \A j \in Jobs :
        (wr[j] = "opened" /\ pc[j] # "L132") =>
            read_meta(j) \in {Some(d) : d \in Docs(j)}

\* C3 (as claimed): once submit has returned the job id, share never answers
\* 404 for it.
C3_ShareNever404 ==
    (resp.op = "share" /\ Submitted(resp.job_id)) => resp.code # 404

\* C4 (as claimed): a job whose extraction returned without leaving any file
\* never writes a done record.
C4_NoMediaIsFatal ==
    \A j \in Jobs :
        (hist[j].extract = "returned" /\ hist[j].produced = {}) =>
            \A d \in Docs(j) : d.status # "done"

\* C5 (as claimed): a job whose transcoding adapter failed (failure exit,
\* failure exit leaving an output file, or no launch) writes no error record,
\* and its done record names the primary file selected before the transcode.
C5_TranscodeFailureNotFatal ==
    \A j \in Jobs :
        hist[j].adapter \in {"exit_fail", "exit_fail_output", "not_launched"} =>
            /\ meta[j].status # "error"
            /\ \A d \in Docs(j) :
                  /\ d.status # "error"
                  /\ d.status = "done" => d.filename = hist[j].primary

\* C6 (as claimed): for a job whose record has status error, serve_file
\* answers 404 whatever the file name.
C6_ErrorJobServesNothing ==
    (resp.op = "file" /\ RecordStatus(resp.job_id) = "error") => resp.code = 404

\* C7: every done record written has the keys filename, download_url and
\* dl_url, each with a non-empty value.
C7_DoneHasArtifactFields ==
    \A j \in Jobs : \A d \in Docs(j) \cup {meta[j]} :
        d.status = "done" =>
            /\ {"filename", "download_url", "dl_url"} \subseteq DOMAIN d
            /\ d.filename # <<>>
            /\ d.download_url # <<>>
            /\ d.dl_url # <<>>

\* C7 witness: a done record is on disk.
C7_Witness == \E j \in Jobs : RecordStatus(j) = "done"

\* C8 (as claimed): every error record written has a non-empty error message
\* and none of the success fields.
C8_ErrorHasNoSuccessFields ==
    \A j \in Jobs : \A d \in Docs(j) :
        d.status = "error" =>
            /\ "error" \in DOMAIN d
            /\ d.error # ""
            /\ DOMAIN d \cap SuccessFields = {}

\* C9: dl_job answers 404 whenever the job's record is not a readable done
\* record; when it is, the record's filename is a file of the job directory
\* and dl_job serves that file.
C9_StableLink ==
    /\ \A j \in Jobs :
          RecordStatus(j) = "done" =>
              read_meta(j).v.filename \in Names(Listing(j))
    /\ resp.op = "dl" =>
          IF RecordStatus(resp.job_id) = "done"
          THEN /\ resp.code = 200
               /\ resp.file = read_meta(resp.job_id).v.filename
          ELSE resp.code = 404

\* C9 witness: dl_job served the transcoded artifact of a done job.
C9_Witness ==
    /\ resp.op = "dl" /\ resp.code = 200
    /\ hist[resp.job_id].adapter = "ok"
    /\ resp.file # hist[resp.job_id].primary

\* C10 (as claimed, in the form a finite run refutes): when the worker of a
\* submitted job has ended, the job's record is readable and terminal.
C10_EndedWorkerIsTerminal ==
    \A j \in Jobs :
        pc[j] \in {"exit", "crashed"} => RecordStatus(j) \in {"done", "error"}

\* What a step can change besides the response: records, directories,
\* workers and their history.
stored == <<pc, wr, meta, loc, disk, dir, writes, hist>>

\* C11: a submit request without a url answers 400 and changes no job
\* state: no id leaves the free pool, no directory or record appears, no
\* worker starts.
C11_NoUrlChangesNothing ==
    [][(resp'.op = "download" /\ resp'.code = 400) => UNCHANGED stored]_vars

\* C11 witness: a submit without a url was answered 400 while one job's
\* worker is in a write and another id is still unused.
C11_Witness ==
    /\ resp.op = "download" /\ resp.code = 400
    /\ \E j, k \in Jobs :
          /\ pc[j] = "L212" /\ wr[j] = "opened"
          /\ pc[k] = "free" /\ disk[k] = Absent /\ dir[k] = {}

\* C12 (as claimed): when QR generation fails (qrcode missing, or an
\* exception in the QR block), the record merged for the job is done and
\* its qr_url is None.
C12_QrFailureLeavesNoQrUrl ==
    \A j \in Jobs :
        (pc[j] = "L299" /\ hist[j].qr \in {"no_qrcode", "raised", "raised_output"}) =>
            /\ meta[j].status = "done"
            /\ meta[j].qr_url = None

TimeFields == {"created_at", "started_at", "finished_at"}

\* C13 (as claimed): a timestamp that a written record carries is carried,
\* with the same value, by every record written later for that job.
C13_TimestampsSetOnce ==
    \A j \in Jobs : \A i, k \in DOMAIN writes[j] : \A f \in TimeFields :
        (i < k /\ f \in DOMAIN writes[j][i]) =>
            /\ f \in DOMAIN writes[j][k]
            /\ writes[j][k][f] = writes[j][i][f]

TerminalFields ==
    {"title", "filename", "is_playlist", "download_url", "dl_url", "qr_url"}

\* C14: no queued or processing record carries title, filename, is_playlist,
\* download_url, dl_url or qr_url, and a record written after one that
\* carries them carries the same values.
C14_TerminalFieldsStable ==
    \A j \in Jobs :
        /\ \A d \in Docs(j) \cup {meta[j]} :
              d.status \in {"queued", "processing"} =>
                  DOMAIN d \cap TerminalFields = {}
        /\ \A i, k \in DOMAIN writes[j] : \A f \in TerminalFields :
              (i < k /\ f \in DOMAIN writes[j][i]) =>
                  /\ f \in DOMAIN writes[j][k]
                  /\ writes[j][k][f] = writes[j][i][f]

\* C14 witness: a done record was written and a later record (the
\* handler's, after the done write failed) followed it.
C14_Witness ==
    \E j \in Jobs :
        /\ Len(writes[j]) = 5
        /\ writes[j][4].status = "done"
        /\ writes[j][5].status = "error"
        /\ disk[j] = Full(writes[j][5])

\* C17: a share, dl or file request leaves every job record, every job
\* directory and every worker as it was, whatever the id it names and
\* wherever the workers are.
C17_ReadOnlyRoutes ==
    [][resp'.op \in {"share", "dl", "file"} => UNCHANGED stored]_vars

\* C17 witness: a download was served for a job while another request or
\* worker step could follow; the answered job is done and its record intact.
C17_Witness ==
    \E j \in Jobs :
        /\ resp.op = "dl" /\ resp.code = 200 /\ resp.job_id = j
        /\ disk[j] = Full(writes[j][Len(writes[j])])

\* Position of an extension in the priority list, past its end when absent.
ExtRank(e) ==
    IF \E i \in DOMAIN PriorityExts : PriorityExts[i] = e
    THEN CHOOSE i \in DOMAIN PriorityExts : PriorityExts[i] = e
    ELSE Len(PriorityExts) + 1

\* C18 (as claimed): the selected primary file is one of the produced files,
\* never meta.json; it has the best-ranked priority extension present, or,
\* when no produced file has a priority extension, no produced file is
\* larger.
C18_PrimarySelection ==
    \A j \in Jobs :
        pc[j] = "L260" =>
            /\ hist[j].primary # MetaName
            /\ \E f \in dir[j] :
                  /\ f.name = hist[j].primary
                  /\ \A g \in dir[j] :
                        ExtRank(Lower(Suffix(g.name))) >= ExtRank(Lower(Suffix(f.name)))
                  /\ (\A g \in dir[j] : ExtRank(Lower(Suffix(g.name))) > Len(PriorityExts))
                        => \A g \in dir[j] : g.size <= f.size

\* The format a job was submitted with.
FormatOf(j) == writes[j][1].params.format

\* C19 (as claimed): once a worker is past the transcode step, the adapter
\* was invoked exactly when the requested format is mp3 or mp4 and the
\* primary file's extension differs from it; a done record names the primary
\* file when the adapter was not invoked, and the sanitized title plus the
\* target extension when it was invoked and succeeded.
C19_TranscodeCondition ==
    \A j \in Jobs :
        (hist[j].primary # <<>> /\ pc[j] # "L260") =>
            LET ext == Lower(Suffix(hist[j].primary))
                target == IF FormatOf(j) = "mp3" THEN ".mp3" ELSE ".mp4"
            IN /\ (hist[j].adapter # "not_run") <=> (ext # target)
               /\ \A d \in Docs(j) :
                     d.status = "done" =>
                         /\ hist[j].adapter = "not_run" => d.filename = hist[j].primary
                         /\ hist[j].adapter = "ok" =>
                               d.filename = safe_filename(d.title.v) \o <<target>>

\* C20 (as claimed): a written record carries finished_at exactly when its
\* status is done.
C20_FinishedAtIffDone ==
    \A j \in Jobs : \A d \in Docs(j) :
        ("finished_at" \in DOMAIN d) <=> (d.status = "done")

Running(j) == hist[j].threads > 0 /\ ~Ended(pc[j])

====
